---- MODULE Spec2Model ----
(***************************************************************************)
(* A model of bottelegram.py: the one-time build phase of main (Drive      *)
(* listing, per-file download and extraction, splitting, embedding, index  *)
(* and chain construction, handler registration) followed by the polling   *)
(* phase in which the Telegram application dispatches updates to start and *)
(* handle_message.                                                         *)
(*                                                                         *)
(* String literals of the program are written without their accents and    *)
(* emoji (the module is ASCII); they are otherwise the program's literals. *)
(***************************************************************************)
EXTENDS Integers, Sequences, FiniteSets, TLC

(* ------------------------------ bounds --------------------------------- *)

\* The longest Drive folder listing explored.
MaxFiles == 2
\* The number of Telegram updates delivered while polling.
MaxUpdates == 2
\* The longest page_content given to the splitter on its own.
MaxLen == 4
\* The largest chunk_size of the splitter on its own.
MaxChunkSize == 3

(* ------------------------- program constants --------------------------- *)

GDOC == "application/vnd.google-apps.document"
GSLIDES == "application/vnd.google-apps.presentation"
GSHEET == "application/vnd.google-apps.spreadsheet"
DOCX_EXPORT == "application/vnd.openxmlformats-officedocument.wordprocessingml.document"
PPTX_EXPORT == "application/vnd.openxmlformats-officedocument.presentationml.presentation"

\* File names and extensions are sequences of tokens; "." and "/" are the
\* separator characters, every other token stands for a run of other characters.
DOTPDF == <<".", "pdf">>
DOTDOCX == <<".", "docx">>
DOTPPTX == <<".", "pptx">>

chunk_size == 1000
chunk_overlap == 100

GREETING == "Hola, soy tu bot academico. Preguntame sobre cualquier tema relacionado con los documentos cargados."
NO_RESULT_DEFAULT == "No encontre informacion."
APOLOGY == "Ocurrio un error al procesar tu pregunta."

(* ------------------------------ inputs --------------------------------- *)

\* Mime types other than the three Google-native ones the code names.
PDF_MIME == "application/pdf"
XLSX_MIME == "application/vnd.openxmlformats-officedocument.spreadsheetml.sheet"
TEXT_MIME == "text/plain"

\* The (name, mimeType) pairs a listing is drawn from.
FileKinds ==
    { [name |-> <<"apuntes">>,              mimeType |-> GDOC],
      [name |-> <<"clase">>,                mimeType |-> GSLIDES],
      [name |-> <<"notas">>,                mimeType |-> GSHEET],
      [name |-> <<"tema", ".", "pdf">>,     mimeType |-> PDF_MIME],
      [name |-> <<"tema">>,                 mimeType |-> PDF_MIME],
      [name |-> <<"guia", ".", "docx">>,    mimeType |-> DOCX_EXPORT],
      [name |-> <<"notas", ".", "xlsx">>,   mimeType |-> XLSX_MIME],
      [name |-> <<".", "pdf">>,             mimeType |-> TEXT_MIME] }

\* A page_content is a sequence of characters: "x" stands for any character
\* that is not white space, " " is a space, "\n" a newline and "\t" a tab.
Whitespace == {" ", "\n", "\t"}

\* The page_content of the documents a loader returns for one file.
LoaderOutputs == { << <<>> >>, << <<"x", "x", " ", "x">>, <<>> >> }

\* Folder listings: files(id, name, mimeType), ids are the positions.
Listings ==
    UNION { [1..n -> FileKinds] : n \in 0..MaxFiles }

Range(s) == { s[k] : k \in DOMAIN s }

(* ------------------------------ helpers -------------------------------- *)

\* os.path.splitext(file_name)[-1]: the extension starts at the last "."
\* after the last "/", provided a non-"." character precedes it in the
\* base name; otherwise it is empty.
LastIndexOf(p, c) ==
    LET hits == { k \in DOMAIN p : p[k] = c }
    IN IF hits = {} THEN 0 ELSE CHOOSE k \in hits : \A j \in hits : j <= k

splitext_ext(p) ==
    LET sepIndex == LastIndexOf(p, "/")
        dotIndex == LastIndexOf(p, ".")
    IN IF dotIndex > sepIndex
          /\ \E k \in (sepIndex + 1)..(dotIndex - 1) : p[k] # "."
       THEN SubSeq(p, dotIndex, Len(p))
       ELSE <<>>


\* RecursiveCharacterTextSplitter, as constructed at line 113: the default
\* separators, keep_separator = True, strip_whitespace = True, length = len.
\* A piece of a text t is the substring t[from+1 .. to].
separators == << <<"\n", "\n">>, <<"\n">>, <<" ">>, <<>> >>

Piece(a, b) == [from |-> a, to |-> b]

PLen(p) == p.to - p.from

\* re.search(separator, text) on the piece p of t.
re_search(t, p, sep) ==
    \E k \in p.from..(p.to - Len(sep)) : SubSeq(t, k + 1, k + Len(sep)) = sep

\* The starts of the matches re.split finds, from left to right and without
\* overlap, at or after position k.
RECURSIVE re_matches(_, _, _, _)
re_matches(t, k, to, sep) ==
    IF k + Len(sep) > to THEN <<>>
    ELSE IF SubSeq(t, k + 1, k + Len(sep)) = sep
         THEN <<k>> \o re_matches(t, k + Len(sep), to, sep)
         ELSE re_matches(t, k + 1, to, sep)

\* _split_text_with_regex(text, separator, keep_separator = True): the text
\* is cut in front of every match, so each separator opens the piece that
\* follows it; the empty separator cuts between all characters; empty pieces
\* are dropped.
split_text_with_regex(t, p, sep) ==
    IF sep = <<>>
    THEN [k \in 1..PLen(p) |-> Piece(p.from + k - 1, p.from + k)]
    ELSE LET cuts == <<p.from>> \o re_matches(t, p.from, p.to, sep) \o <<p.to>>
             all == [k \in 1..(Len(cuts) - 1) |-> Piece(cuts[k], cuts[k + 1])]
         IN SelectSeq(all, LAMBDA q : PLen(q) > 0)

\* text.strip()
RECURSIVE lstrip(_, _)
lstrip(t, p) ==
    IF PLen(p) > 0 /\ t[p.from + 1] \in Whitespace
    THEN lstrip(t, Piece(p.from + 1, p.to))
    ELSE p

RECURSIVE rstrip(_, _)
rstrip(t, p) ==
    IF PLen(p) > 0 /\ t[p.to] \in Whitespace
    THEN rstrip(t, Piece(p.from, p.to - 1))
    ELSE p

\* _join_docs(docs, ""): the pieces are joined and stripped; None (here no
\* chunk) when nothing is left.
join_docs(t, docs) ==
    IF docs = <<>> THEN <<>>
    ELSE LET text == rstrip(t, lstrip(t, Piece(docs[1].from, docs[Len(docs)].to)))
         IN IF PLen(text) = 0 THEN <<>> ELSE <<text>>

\* A loop that drops the whole current chunk, keeping no overlap.
pop_overlap_all(current_doc, total, len, S, O) ==
    [current_doc |-> <<>>, total |-> 0]

\* The while loop of _merge_splits: pieces leave the front of current_doc
\* until at most chunk_overlap characters are kept and the next piece fits.
RECURSIVE pop_overlap(_, _, _, _, _)
pop_overlap(current_doc, total, len, S, O) ==
    IF total > O \/ (total + len > S /\ total > 0)
    THEN pop_overlap(Tail(current_doc), total - PLen(Head(current_doc)), len, S, O)
    ELSE [current_doc |-> current_doc, total |-> total]

\* _merge_splits(splits, ""): the loop over the pieces from the k-th on.
RECURSIVE merge_loop(_, _, _, _, _, _, _, _)
merge_loop(t, splits, k, docs, current_doc, total, S, O) ==
    IF k > Len(splits) THEN docs \o join_docs(t, current_doc)
    ELSE LET d == splits[k]
             full == total + PLen(d) > S /\ Len(current_doc) > 0
             kept == IF full THEN pop_overlap(current_doc, total, PLen(d), S, O)
                     ELSE [current_doc |-> current_doc, total |-> total]
         IN merge_loop(t, splits, k + 1,
                       IF full THEN docs \o join_docs(t, current_doc) ELSE docs,
                       Append(kept.current_doc, d), kept.total + PLen(d), S, O)

merge_splits(t, splits, S, O) == merge_loop(t, splits, 1, <<>>, <<>>, 0, S, O)

\* The choice of the separator in _split_text: the first one that is empty
\* or occurs in the text; the separators after it are kept for the pieces
\* that are still too long.
RECURSIVE pick_separator(_, _, _, _)
pick_separator(t, p, seps, k) ==
    IF k > Len(seps)
    THEN [separator |-> seps[Len(seps)], new_separators |-> <<>>]
    ELSE IF seps[k] = <<>>
    THEN [separator |-> <<>>, new_separators |-> <<>>]
    ELSE IF re_search(t, p, seps[k])
    THEN [separator |-> seps[k], new_separators |-> SubSeq(seps, k + 1, Len(seps))]
    ELSE pick_separator(t, p, seps, k + 1)

\* _split_text(text, separators): pieces shorter than chunk_size are
\* collected and merged; a longer piece is split again with the remaining
\* separators, or kept as it is when none remains.
RECURSIVE split_text_rec(_, _, _, _, _)
RECURSIVE split_loop(_, _, _, _, _, _, _, _)
split_loop(t, splits, k, good_splits, final_chunks, new_separators, S, O) ==
    LET merged == IF good_splits = <<>> THEN <<>>
                  ELSE merge_splits(t, good_splits, S, O)
    IN IF k > Len(splits) THEN final_chunks \o merged
       ELSE IF PLen(splits[k]) < S
       THEN split_loop(t, splits, k + 1, Append(good_splits, splits[k]),
                       final_chunks, new_separators, S, O)
       ELSE split_loop(t, splits, k + 1, <<>>,
                       final_chunks \o merged \o
                         (IF new_separators = <<>> THEN <<splits[k]>>
                          ELSE split_text_rec(t, splits[k], new_separators, S, O)),
                       new_separators, S, O)

split_text_rec(t, p, seps, S, O) ==
    LET c == pick_separator(t, p, seps, 1)
    IN split_loop(t, split_text_with_regex(t, p, c.separator), 1, <<>>, <<>>,
                  c.new_separators, S, O)

split_text(t, S, O) == split_text_rec(t, Piece(0, Len(t)), separators, S, O)

\* text_splitter.split_documents(documents): every chunk keeps the metadata
\* of its document; a chunk holds the characters from+1 .. to of its
\* document's page_content.
RECURSIVE split_documents(_, _)
split_documents(splitter, docs) ==
    IF docs = <<>> THEN <<>>
    ELSE LET d == Head(docs)
             chunks == split_text(d.page_content, splitter.chunk_size,
                                  splitter.chunk_overlap)
         IN [k \in 1..Len(chunks) |->
                [source |-> d.source, part |-> d.part,
                 from |-> chunks[k].from, to |-> chunks[k].to]]
            \o split_documents(splitter, Tail(docs))

(* ------------------------------- state --------------------------------- *)

VARIABLES
    env,         \* the names set in the process environment (after load_dotenv)
    pc,          \* position of the main thread
    exitStatus,  \* "running", or how the process ended: "success" | "failure"
    crash,       \* the stage whose exception left main uncaught, or "none"
    log,         \* the records emitted through logger, in order
    files,       \* get_documents_from_drive: the folder listing
    i,           \* get_documents_from_drive: position of the loop in files
    request,     \* get_documents_from_drive: the media request of this file
    extension,   \* get_documents_from_drive: the extension of this file
    fh,          \* get_documents_from_drive: the staging file of this file (0: unbound)
    done,        \* get_documents_from_drive: the download of this file is complete
    loader,      \* get_documents_from_drive: the loader chosen for this file
    documents,   \* the accumulated documents (returned to main)
    tempFiles,   \* the staging files that exist on disk
    requests,    \* the media requests issued to Drive so far (by file id)
    outcome,     \* per processed file, how its iteration ended (history)
    text_splitter, \* main: the splitter's chunk_size and chunk_overlap
    texts,       \* main: the chunks
    vectorstore, \* main: the FAISS index (its entries)
    qa_chain,    \* main: the RetrievalQA chain (the index it retrieves from)
    handlers,    \* the handlers registered with the application
    nUpdates,    \* updates dispatched so far
    update,      \* the update being handled (or last handled)
    hpc,         \* position of the running handler coroutine
    result,      \* handle_message: the response of qa_chain.ainvoke
    replies,     \* the texts delivered in reply to the current update
    escaped,     \* whether an exception left the handler of the current update
    attempts,    \* the texts passed to reply_text for the current update (history)
    ainvokes     \* calls of qa_chain.ainvoke made for the current update (history)

loadVars == <<files, i, request, extension, fh, done, loader, documents,
              tempFiles, requests, outcome>>
buildVars == <<text_splitter, texts, vectorstore, qa_chain, handlers>>
queryVars == <<nUpdates, update, hpc, result, replies, escaped,
               attempts, ainvokes>>
vars == <<env, pc, exitStatus, crash, log, loadVars, buildVars, queryVars>>

NoRequest == [kind |-> "none", fileId |-> 0, mimeType |-> ""]
NoSplitter == [chunk_size |-> 0, chunk_overlap |-> 0]
NoChain == [llm |-> "none", retriever |-> <<>>]
NoUpdate == [kind |-> "none", text |-> ""]
NoResult == [none |-> ""]

LogRecord(level, msg, name, n) ==
    [level |-> level, msg |-> msg, name |-> name, n |-> n]

\* A getenv that falls back to a default value.
os_getenv_default(name) == "value"

\* Lines 29-32: os.getenv(name) is None when the name is not set.
os_getenv(name) == IF name \in env THEN "value" ELSE "None"

BOT_TOKEN == os_getenv("BOT_TOKEN")
OPENAI_API_KEY == os_getenv("OPENAI_API_KEY")
DRIVE_FOLDER_ID == os_getenv("DRIVE_FOLDER_ID")
GOOGLE_CREDS == os_getenv("GOOGLE_CREDS")

ConfigNames == {"BOT_TOKEN", "OPENAI_API_KEY", "DRIVE_FOLDER_ID", "GOOGLE_CREDS"}

Init ==
    /\ env \in SUBSET ConfigNames
    /\ pc = "main"
    /\ exitStatus = "running"
    /\ crash = "none"
    /\ log = <<>>
    /\ files = <<>>
    /\ i = 0
    /\ request = NoRequest
    /\ extension = <<>>
    /\ fh = 0
    /\ done = FALSE
    /\ loader = "none"
    /\ documents = <<>>
    /\ tempFiles = {}
    /\ requests = {}
    /\ outcome = <<>>
    /\ text_splitter = NoSplitter
    /\ texts = <<>>
    /\ vectorstore = <<>>
    /\ qa_chain = NoChain
    /\ handlers = {}
    /\ nUpdates = 0
    /\ update = NoUpdate
    /\ hpc = "idle"
    /\ result = NoResult
    /\ replies = <<>>
    /\ escaped = FALSE
    /\ attempts = <<>>
    /\ ainvokes = 0


(* --------------------- get_documents_from_drive ------------------------ *)

\* How the iteration of one file ended: "loaded", "skipped" or "error", the
\* step that ended it, the loader that ran and the documents it returned.
Outcome(status, stage, ldr, docs) ==
    [status |-> status, stage |-> stage, loader |-> ldr, docs |-> docs]

\* An uncaught exception: the traceback is printed and the interpreter
\* exits with a failure status.
Uncaught(stage) ==
    /\ pc' = "exited"
    /\ exitStatus' = "failure"
    /\ crash' = stage

\* A loop body whose except clause re-raises after logging.
except_reraise(stage) ==
    /\ log' = Append(log, LogRecord("error", "Error al procesar", files[i].name, 0))
    /\ Uncaught("get_documents_from_drive")
    /\ UNCHANGED <<outcome, i>>

\* Lines 95-96: the except clause of the loop body logs the file's name and
\* the loop goes on with the next file.
except_Exception(stage) ==
    /\ log' = Append(log, LogRecord("error", "Error al procesar", files[i].name, 0))
    /\ outcome' = Append(outcome, Outcome("error", stage, "none", <<>>))
    /\ i' = i + 1
    /\ pc' = "gd_loop"
    /\ UNCHANGED <<exitStatus, crash>>

\* Lines 42-50: credentials, Drive service and folder listing. Nothing
\* here is inside a try: an exception leaves get_documents_from_drive and main.
\* base64.b64decode(None) raises; listing the children of the folder 'None'
\* is refused by Drive or yields no files.
gd_list ==
    /\ pc = "gd_list"
    /\ UNCHANGED env
    /\ \/ /\ Uncaught("get_documents_from_drive")
          /\ UNCHANGED <<log, loadVars>>
       \/ /\ GOOGLE_CREDS # "None"
          /\ \E fs \in Listings :
                /\ DRIVE_FOLDER_ID = "None" => fs = <<>>
                /\ files' = fs
          /\ documents' = <<>>
          /\ i' = 1
          /\ pc' = "gd_loop"
          /\ UNCHANGED <<exitStatus, crash, log, request, extension, fh, done,
                         loader, tempFiles, requests, outcome>>
    /\ UNCHANGED <<buildVars, queryVars>>

\* Lines 59-72: the media request and the extension, from the mime type.
export_media(fileId, mimeType) ==
    [kind |-> "export_media", fileId |-> fileId, mimeType |-> mimeType]

get_media(fileId) ==
    [kind |-> "get_media", fileId |-> fileId, mimeType |-> ""]

\* A spreadsheet branch that reports the file through logger.error.
skip_spreadsheet_as_error(file) ==
    /\ log' = Append(log, LogRecord("error",
                 "Archivo de hoja de calculo omitido", file.name, 0))
    /\ outcome' = Append(outcome, Outcome("skipped", "mime", "none", <<>>))
    /\ i' = i + 1
    /\ UNCHANGED <<pc, exitStatus, crash>>

\* Lines 67-69: a Google spreadsheet is logged as omitted and the loop
\* continues with the next file.
skip_spreadsheet(file) ==
    /\ log' = Append(log, LogRecord("warning",
                 "Archivo de hoja de calculo omitido", file.name, 0))
    /\ outcome' = Append(outcome, Outcome("skipped", "mime", "none", <<>>))
    /\ i' = i + 1
    /\ UNCHANGED <<pc, exitStatus, crash>>

gd_request ==
    /\ pc = "gd_loop"
    /\ UNCHANGED env
    /\ i <= Len(files)
    /\ LET file == files[i]
           mime_type == file.mimeType
       IN IF mime_type = GSHEET
          THEN /\ skip_spreadsheet(file)
               /\ UNCHANGED <<request, extension, requests>>
          ELSE \/ /\ request' = IF mime_type = GDOC THEN export_media(i, DOCX_EXPORT)
                                ELSE IF mime_type = GSLIDES THEN export_media(i, PPTX_EXPORT)
                                ELSE get_media(i)
                  /\ extension' = IF mime_type = GDOC THEN DOTDOCX
                                  ELSE IF mime_type = GSLIDES THEN DOTPPTX
                                  ELSE splitext_ext(file.name)
                  /\ requests' = requests \cup {i}
                  /\ pc' = "gd_stage"
                  /\ UNCHANGED <<exitStatus, crash, log, outcome, i>>
               \/ /\ except_Exception("request")
                  /\ UNCHANGED <<request, extension, requests>>
    /\ UNCHANGED <<files, fh, done, loader, documents, tempFiles>>
    /\ UNCHANGED <<buildVars, queryVars>>

\* Lines 74-76: NamedTemporaryFile(delete=False, suffix=extension) creates
\* the staging file on disk; the downloader is bound to it; done = False.
gd_stage ==
    /\ pc = "gd_stage"
    /\ UNCHANGED env
    /\ \/ /\ fh' = i
          /\ tempFiles' = tempFiles \cup {i}
          /\ done' = FALSE
          /\ pc' = "gd_download"
          /\ UNCHANGED <<exitStatus, crash, log, outcome, i>>
       \/ /\ except_Exception("stage")
          /\ UNCHANGED <<fh, tempFiles, done>>
    /\ UNCHANGED <<files, request, extension, loader, documents, requests>>
    /\ UNCHANGED <<buildVars, queryVars>>

\* A download that calls next_chunk once and goes on whatever it reports.
gd_next_chunk_once ==
    /\ pc = "gd_download"
    /\ done' \in BOOLEAN
    /\ pc' = "gd_select"
    /\ UNCHANGED <<env, exitStatus, crash, log, outcome, i>>
    /\ UNCHANGED <<files, request, extension, fh, loader, documents,
                   tempFiles, requests>>
    /\ UNCHANGED <<buildVars, queryVars>>

\* Lines 77-78: one downloader.next_chunk(); the loop ends when it reports done.
gd_next_chunk ==
    /\ pc = "gd_download"
    /\ UNCHANGED env
    /\ \/ /\ done' \in BOOLEAN
          /\ pc' = IF done' THEN "gd_select" ELSE "gd_download"
          /\ UNCHANGED <<exitStatus, crash, log, outcome, i>>
       \/ /\ except_Exception("download")
          /\ UNCHANGED done
    /\ UNCHANGED <<files, request, extension, fh, loader, documents,
                   tempFiles, requests>>
    /\ UNCHANGED <<buildVars, queryVars>>

\* Lines 79-90: flush, then the loader is chosen from the extension; any
\* other extension is logged as unsupported and the loop continues.
LoaderFor_swapped(ext) ==
    IF ext = DOTPDF THEN "UnstructuredWordDocumentLoader"
    ELSE IF ext = DOTDOCX THEN "UnstructuredPDFLoader"
    ELSE IF ext = DOTPPTX THEN "UnstructuredPowerPointLoader"
    ELSE "none"

LoaderFor(ext) ==
    IF ext = DOTPDF THEN "UnstructuredPDFLoader"
    ELSE IF ext = DOTDOCX THEN "UnstructuredWordDocumentLoader"
    ELSE IF ext = DOTPPTX THEN "UnstructuredPowerPointLoader"
    ELSE "none"

gd_select ==
    /\ pc = "gd_select"
    /\ UNCHANGED env
    /\ \/ IF LoaderFor(extension) # "none"
          THEN /\ loader' = LoaderFor(extension)
               /\ pc' = "gd_load"
               /\ UNCHANGED <<exitStatus, crash, log, outcome, i>>
          ELSE /\ log' = Append(log, LogRecord("warning",
                            "Tipo de archivo no compatible", files[i].name, 0))
               /\ outcome' = Append(outcome,
                            Outcome("skipped", "extension", "none", <<>>))
               /\ i' = i + 1
               /\ pc' = "gd_loop"
               /\ UNCHANGED <<exitStatus, crash, loader>>
       \/ /\ except_Exception("select")
          /\ UNCHANGED loader
    /\ UNCHANGED <<files, request, extension, fh, done, documents, tempFiles,
                   requests>>
    /\ UNCHANGED <<buildVars, queryVars>>

\* Lines 92-93: docs = loader.load(); documents.extend(docs).
Docs(fileId, contents) ==
    [k \in 1..Len(contents) |->
        [source |-> fileId, part |-> k, page_content |-> contents[k]]]

\* An assignment in place of the extend.
extend_replace(list, docs) == docs

\* An extend that puts the new documents in front.
extend_front(list, docs) == docs \o list

extend(list, docs) == list \o docs

gd_load ==
    /\ pc = "gd_load"
    /\ UNCHANGED env
    /\ \/ \E contents \in LoaderOutputs :
             /\ documents' = extend(documents, Docs(i, contents))
             /\ outcome' = Append(outcome,
                    Outcome("loaded", "load", loader, Docs(i, contents)))
             /\ i' = i + 1
             /\ pc' = "gd_loop"
             /\ UNCHANGED <<exitStatus, crash, log>>
       \/ /\ except_Exception("load")
          /\ UNCHANGED documents
    /\ UNCHANGED <<files, request, extension, fh, done, loader, tempFiles,
                   requests>>
    /\ UNCHANGED <<buildVars, queryVars>>

\* Line 98: return documents; the locals of the call are gone, the staging
\* files stay on disk.
gd_return ==
    /\ pc = "gd_loop"
    /\ UNCHANGED env
    /\ i > Len(files)
    /\ pc' = "main_loaded"
    /\ files' = <<>>
    /\ i' = 0
    /\ request' = NoRequest
    /\ extension' = <<>>
    /\ fh' = 0
    /\ done' = FALSE
    /\ loader' = "none"
    /\ outcome' = <<>>
    /\ UNCHANGED <<exitStatus, crash, log, documents, tempFiles, requests>>
    /\ UNCHANGED <<buildVars, queryVars>>


(* -------------------------------- main --------------------------------- *)

\* Lines 104-105: main announces the load and calls get_documents_from_drive.
main ==
    /\ pc = "main"
    /\ UNCHANGED env
    /\ log' = Append(log, LogRecord("info", "Cargando documentos desde Google Drive...", <<>>, 0))
    /\ pc' = "gd_list"
    /\ UNCHANGED <<exitStatus, crash, loadVars, buildVars, queryVars>>

\* A main whose fatal branches lack their return: it goes on to the index.
ReturnMissing ==
    /\ pc' = "main_embed"
    /\ UNCHANGED <<exitStatus, crash>>

\* A return from main: the module ends and the interpreter exits normally.
ReturnFromMain ==
    /\ pc' = "exited"
    /\ exitStatus' = "success"
    /\ UNCHANGED crash

\* Lines 106-110: the total is logged; with no documents main logs an error
\* and returns.
main_loaded ==
    /\ pc = "main_loaded"
    /\ UNCHANGED env
    /\ LET total == LogRecord("info", "Total de documentos cargados", <<>>, Len(documents))
       IN IF documents = <<>>
          THEN /\ log' = log \o << total,
                        LogRecord("error", "No se pudo cargar ningun documento valido. El bot no puede continuar.", <<>>, 0) >>
               /\ ReturnFromMain
          ELSE /\ log' = Append(log, total)
               /\ pc' = "main_splitter"
               /\ UNCHANGED <<exitStatus, crash>>
    /\ UNCHANGED <<loadVars, buildVars, queryVars>>

\* Line 113: the splitter is constructed.
main_splitter ==
    /\ pc = "main_splitter"
    /\ text_splitter' = [chunk_size |-> chunk_size, chunk_overlap |-> chunk_overlap]
    /\ pc' = "main_split"
    /\ UNCHANGED <<env, exitStatus, crash, log, loadVars, texts, vectorstore,
                   qa_chain, handlers, queryVars>>

\* Lines 114-118: the documents are split; with no chunks main logs an error
\* and returns.
main_split ==
    /\ pc = "main_split"
    /\ UNCHANGED env
    /\ texts' = split_documents(text_splitter, documents)
    /\ IF texts' = <<>>
       THEN /\ log' = Append(log, LogRecord("error",
                        "No se pudo dividir el contenido en fragmentos.", <<>>, 0))
            /\ ReturnFromMain
       ELSE /\ pc' = "main_embed"
            /\ UNCHANGED <<exitStatus, crash, log>>
    /\ UNCHANGED <<loadVars, text_splitter, vectorstore, qa_chain, handlers,
                   queryVars>>

\* A main that goes on to the chain without having built the index.
main_embed_unbuilt ==
    /\ pc = "main_embed"
    /\ UNCHANGED env
    /\ pc' = "main_chain"
    /\ UNCHANGED <<exitStatus, crash, log, loadVars, buildVars, queryVars>>

\* Lines 120-121: the chunks are embedded through the OpenAI API and indexed;
\* without an API key the client cannot be built.
main_embed ==
    /\ pc = "main_embed"
    /\ UNCHANGED env
    /\ \/ /\ OPENAI_API_KEY # "None"
          /\ vectorstore' = texts
          /\ pc' = "main_chain"
          /\ UNCHANGED <<exitStatus, crash>>
       \/ /\ Uncaught("FAISS.from_documents")
          /\ UNCHANGED vectorstore
    /\ UNCHANGED <<log, loadVars, text_splitter, texts, qa_chain, handlers, queryVars>>

\* Lines 123-126: the chain over the index's retriever.
main_chain ==
    /\ pc = "main_chain"
    /\ UNCHANGED env
    /\ \/ /\ OPENAI_API_KEY # "None"
          /\ qa_chain' = [llm |-> "ChatOpenAI", retriever |-> vectorstore]
          /\ pc' = "main_app"
          /\ UNCHANGED <<exitStatus, crash>>
       \/ /\ Uncaught("RetrievalQA.from_chain_type")
          /\ UNCHANGED qa_chain
    /\ UNCHANGED <<log, loadVars, text_splitter, texts, vectorstore, handlers, queryVars>>

\* Lines 145-148: the application is built and the two handlers are added;
\* a bot cannot be built without a token.
StartHandler == [filter |-> "command:start", callback |-> "start"]
MessageHandler == [filter |-> "TEXT & ~COMMAND", callback |-> "handle_message"]

main_app ==
    /\ pc = "main_app"
    /\ UNCHANGED env
    /\ \/ /\ BOT_TOKEN # "None"
          /\ handlers' = {StartHandler, MessageHandler}
          /\ log' = Append(log, LogRecord("info", "Bot iniciado correctamente.", <<>>, 0))
          /\ pc' = "run_polling"
          /\ UNCHANGED <<exitStatus, crash>>
       \/ /\ Uncaught("ApplicationBuilder.build")
          /\ UNCHANGED <<handlers, log>>
    /\ UNCHANGED <<loadVars, text_splitter, texts, vectorstore, qa_chain, queryVars>>

\* Line 149: run_polling initialises the bot and starts fetching updates.
run_polling ==
    /\ pc = "run_polling"
    /\ UNCHANGED env
    /\ \/ /\ pc' = "polling"
          /\ UNCHANGED <<exitStatus, crash>>
       \/ Uncaught("run_polling")
    /\ UNCHANGED <<log, loadVars, buildVars, queryVars>>

(* ----------------------------- the handlers ---------------------------- *)

\* The updates Telegram delivers.
Updates ==
    { [kind |-> "command", text |-> "/start"],
      [kind |-> "command", text |-> "/help"],
      [kind |-> "text",    text |-> "pregunta 1"],
      [kind |-> "text",    text |-> "pregunta 2"] }

\* A message handler registered with filters.TEXT alone: commands are text too.
Matches_text_only(h, u) ==
    \/ h.filter = "command:start" /\ u.kind = "command" /\ u.text = "/start"
    \/ h.filter = "TEXT & ~COMMAND" /\ u.kind \in {"text", "command"} /\ u.text # "/start"

\* Lines 146-147: CommandHandler("start") takes the /start command,
\* filters.TEXT & ~filters.COMMAND takes the text messages that are no command.
Matches(h, u) ==
    \/ h.filter = "command:start" /\ u.kind = "command" /\ u.text = "/start"
    \/ h.filter = "TEXT & ~COMMAND" /\ u.kind = "text"

Route(u) ==
    IF \E h \in handlers : Matches(h, u)
    THEN (CHOOSE h \in handlers : Matches(h, u)).callback
    ELSE "none"

\* A chain that keeps the first question it was asked and answers that one.
ChainResponses_remembered(q) ==
    { [query |-> "pregunta 1", result |-> "respuesta a pregunta 1"],
      [query |-> q] }

\* What qa_chain.ainvoke({"query": q}) may return: a dict with the answer
\* under "result", or one without that key.
ChainResponses(q) ==
    { [query |-> q, result |-> "respuesta a " \o q],
      [query |-> q] }

\* A get that ignores the stored value.
dict_get_default(d, key, default) == default

\* dict.get(key, default)
dict_get(d, key, default) == IF key \in DOMAIN d THEN d[key] ELSE default

\* The application takes the next update once the handler of the previous one
\* has finished, and calls the handler that matches; handle_message runs to
\* its first await (lines 135-136).
dispatch ==
    /\ pc = "polling"
    /\ UNCHANGED env
    /\ hpc \in {"idle", "finished"}
    /\ nUpdates < MaxUpdates
    /\ \E u \in Updates :
          /\ update' = u
          /\ IF Route(u) = "start" THEN
                /\ hpc' = "start"
                /\ UNCHANGED log
             ELSE IF Route(u) = "handle_message" THEN
                /\ hpc' = "hm_ainvoke"
                /\ log' = Append(log, LogRecord("info", "Pregunta recibida", <<u.text>>, 0))
             ELSE
                /\ hpc' = "finished"
                /\ UNCHANGED log
    /\ nUpdates' = nUpdates + 1
    /\ result' = NoResult
    /\ replies' = <<>>
    /\ escaped' = FALSE
    /\ attempts' = <<>>
    /\ ainvokes' = 0
    /\ UNCHANGED <<pc, exitStatus, crash, loadVars, buildVars>>

\* update.message.reply_text(text): the call returns once Telegram has
\* accepted the text, or it raises; a call that raises while waiting for
\* Telegram's response (a timeout) may have delivered the text all the same.
reply_text(text, raised) ==
    /\ attempts' = Append(attempts, text)
    /\ \/ /\ ~raised
          /\ replies' = Append(replies, text)
       \/ /\ raised
          /\ replies' \in {replies, Append(replies, text)}

\* Lines 130-132: start replies with the greeting.
start ==
    /\ pc = "polling"
    /\ UNCHANGED env
    /\ hpc = "start"
    /\ \E raised \in BOOLEAN :
          /\ reply_text(GREETING, raised)
          /\ escaped' = raised
    /\ hpc' = "finished"
    /\ UNCHANGED <<pc, exitStatus, crash, log, loadVars, buildVars,
                   nUpdates, update, result, ainvokes>>

\* An except clause that logs the error and sends nothing.
hm_except_silent ==
    /\ log' = Append(log, LogRecord("error", "Error al responder", <<>>, 0))
    /\ hpc' = "finished"

\* Lines 141-142: the except clause of handle_message logs the error; the
\* apology is sent next.
hm_except ==
    /\ log' = Append(log, LogRecord("error", "Error al responder", <<>>, 0))
    /\ hpc' = "hm_apology"

\* Line 138: result = await qa_chain.ainvoke({"query": user_question})
hm_ainvoke ==
    /\ pc = "polling"
    /\ UNCHANGED env
    /\ hpc = "hm_ainvoke"
    /\ \/ /\ \E r \in ChainResponses(update.text) : result' = r
          /\ hpc' = "hm_reply"
          /\ UNCHANGED log
       \/ /\ hm_except
          /\ UNCHANGED result
    /\ ainvokes' = ainvokes + 1
    /\ UNCHANGED <<pc, exitStatus, crash, loadVars, buildVars,
                   nUpdates, update, replies, escaped, attempts>>

\* Lines 139-140: the answer, or the default when the response has no
\* "result", is sent.
response_text(r) == dict_get(r, "result", NO_RESULT_DEFAULT)

hm_reply ==
    /\ pc = "polling"
    /\ UNCHANGED env
    /\ hpc = "hm_reply"
    /\ \E raised \in BOOLEAN :
          /\ reply_text(response_text(result), raised)
          /\ IF raised THEN hm_except
             ELSE /\ hpc' = "finished"
                  /\ UNCHANGED log
    /\ UNCHANGED <<pc, exitStatus, crash, loadVars, buildVars,
                   nUpdates, update, result, escaped, ainvokes>>

\* Line 143: the apology is sent outside any try: if reply_text raises here
\* the exception leaves handle_message (the application logs it and goes on).
hm_apology ==
    /\ pc = "polling"
    /\ UNCHANGED env
    /\ hpc = "hm_apology"
    /\ \E raised \in BOOLEAN :
          /\ reply_text(APOLOGY, raised)
          /\ escaped' = raised
    /\ hpc' = "finished"
    /\ UNCHANGED <<pc, exitStatus, crash, log, loadVars, buildVars,
                   nUpdates, update, result, ainvokes>>

(* ---------------------------- specification ---------------------------- *)

Next ==
    \/ main
    \/ gd_list
    \/ gd_request
    \/ gd_stage
    \/ gd_next_chunk
    \/ gd_select
    \/ gd_load
    \/ gd_return
    \/ main_loaded
    \/ main_splitter
    \/ main_split
    \/ main_embed
    \/ main_chain
    \/ main_app
    \/ run_polling
    \/ dispatch
    \/ start
    \/ hm_ainvoke
    \/ hm_reply
    \/ hm_apology

Spec == Init /\ [][Next]_vars

\* The split of lines 113-118 on its own: main stands at line 114 with one
\* document of any short text and a splitter of any small chunk_size and
\* chunk_overlap (the constructor refuses chunk_overlap > chunk_size).
Chars == Whitespace \cup {"x"}

Texts == UNION { [1..n -> Chars] : n \in 0..MaxLen }

Splitters ==
    { sp \in [chunk_size : 1..MaxChunkSize, chunk_overlap : 0..MaxChunkSize] :
        sp.chunk_overlap < sp.chunk_size }

InitSplit ==
    /\ env = ConfigNames
    /\ pc = "main_split"
    /\ exitStatus = "running"
    /\ crash = "none"
    /\ log = <<>>
    /\ files = <<>>
    /\ i = 0
    /\ request = NoRequest
    /\ extension = <<>>
    /\ fh = 0
    /\ done = FALSE
    /\ loader = "none"
    /\ \E t \in Texts : documents = Docs(1, <<t>>)
    /\ tempFiles = {1}
    /\ requests = {1}
    /\ outcome = <<>>
    /\ text_splitter \in Splitters
    /\ texts = <<>>
    /\ vectorstore = <<>>
    /\ qa_chain = NoChain
    /\ handlers = {}
    /\ nUpdates = 0
    /\ update = NoUpdate
    /\ hpc = "idle"
    /\ result = NoResult
    /\ replies = <<>>
    /\ escaped = FALSE
    /\ attempts = <<>>
    /\ ainvokes = 0

NextSplit == main_split

SpecSplit == InitSplit /\ [][NextSplit]_vars


(* ------------------------------ properties ----------------------------- *)

LogHas(level, msg) ==
    \E k \in DOMAIN log : log[k].level = level /\ log[k].msg = msg

NoDocumentsError ==
    LogHas("error", "No se pudo cargar ningun documento valido. El bot no puede continuar.")

NoChunksError ==
    LogHas("error", "No se pudo dividir el contenido en fragmentos.")

\* A fatal startup condition of main has occurred: no documents, no chunks,
\* or an exception of the embedding / index / chain construction.
FatalStartup ==
    \/ NoDocumentsError
    \/ NoChunksError
    \/ crash \in {"FAISS.from_documents", "RetrievalQA.from_chain_type"}

Ready == pc = "polling"

\* C1: once a fatal startup condition has occurred (no documents, no chunks,
\* embedding or index construction raised) the handlers are never registered,
\* run_polling is never called and no update is ever dispatched or answered.
C1_FatalNeverReady ==
    FatalStartup =>
        /\ pc = "exited"
        /\ handlers = {}
        /\ nUpdates = 0
        /\ hpc = "idle"
        /\ replies = <<>>

C1_Witness ==
    /\ pc = "exited"
    /\ NoChunksError
    /\ documents # <<>>

\* The documents the processed files returned, in listing order.
RECURSIVE Loaded(_)
Loaded(outs) ==
    IF outs = <<>> THEN <<>> ELSE Head(outs).docs \o Loaded(Tail(outs))

InLoop == pc \in {"gd_loop", "gd_stage", "gd_download", "gd_select", "gd_load"}

\* The files of the listing whose iteration ended in the except clause.
Failed == { k \in DOMAIN outcome : outcome[k].status = "error" }

\* The names logged by the except clause of the loop, in order.
ErrorNames ==
    LET errs == SelectSeq(log, LAMBDA r : r.level = "error" /\ r.msg = "Error al procesar")
    IN [k \in DOMAIN errs |-> errs[k].name]

FailedNames ==
    LET errs == SelectSeq(outcome, LAMBDA o : o.status = "error")
        idx == SelectSeq([k \in DOMAIN outcome |-> k], LAMBDA k : outcome[k].status = "error")
    IN [k \in DOMAIN idx |-> files[idx[k]].name]

\* The extension-or-mime rule of a file that has a loader.
HasLoader(file) ==
    \/ file.mimeType \in {GDOC, GSLIDES}
    \/ /\ file.mimeType # GSHEET
       /\ splitext_ext(file.name) \in {DOTPDF, DOTDOCX, DOTPPTX}

\* C2: whatever files raise during request creation, staging, download or
\* extraction, get_documents_from_drive does not raise: the process never ends
\* inside the loop, every failing file is logged by name, the loop reaches
\* every file, and the documents of every file that did not fail and has a
\* loader are in the result.
C2_PartialSuccess ==
    /\ pc = "exited" => i = 0
    /\ InLoop =>
          /\ exitStatus = "running"
          /\ Len(outcome) = i - 1
          /\ ErrorNames = FailedNames
          /\ documents = Loaded(outcome)
          /\ \A k \in DOMAIN outcome :
                (k \notin Failed /\ HasLoader(files[k])) =>
                    /\ outcome[k].status = "loaded"
                    /\ \A d \in Range(outcome[k].docs) : d \in Range(documents)

C2_Witness ==
    /\ pc = "gd_loop"
    /\ i > Len(files)
    /\ Len(files) = 2
    /\ outcome[1].status = "error"
    /\ outcome[2].status = "loaded"
    /\ documents # <<>>


(* C3 *)

\* The handler of a text message has finished after qa_chain.ainvoke raised
\* (no response was ever bound to result).
AinvokeRaised ==
    /\ update.kind = "text"
    /\ hpc \in {"hm_apology", "finished"}
    /\ result = NoResult

LastLogIs(level, msg) ==
    /\ log # <<>>
    /\ log[Len(log)].level = level
    /\ log[Len(log)].msg = msg

ChainIntact ==
    /\ Ready
    /\ handlers = {StartHandler, MessageHandler}
    /\ vectorstore # <<>>
    /\ qa_chain = [llm |-> "ChatOpenAI", retriever |-> vectorstore]

\* C3 as stated: after a failure of qa_chain.ainvoke the asker has received
\* the apology, no exception has left handle_message, and the pipeline is Ready.
C3_AskFailureAlwaysApologised ==
    (AinvokeRaised /\ hpc = "finished") =>
        /\ replies = <<APOLOGY>>
        /\ ~escaped
        /\ Ready

\* C3 amended: a failure of qa_chain.ainvoke is caught and logged inside
\* handle_message and the apology is attempted once; the asker receives
\* exactly the apology whenever sending it returns, and nothing but the
\* apology otherwise; the exception of the apology's own reply_text is the
\* only one that leaves the handler; in both cases the pipeline stays Ready,
\* with its index, chain and handlers, and the next update can be dispatched.
C3_AskFailureCaught ==
    AinvokeRaised =>
        /\ ChainIntact
        /\ LastLogIs("error", "Error al responder")
        /\ hpc = "hm_apology" => (attempts = <<>> /\ replies = <<>> /\ ~escaped)
        /\ hpc = "finished" =>
              /\ attempts = <<APOLOGY>>
              /\ replies \in {<<>>, <<APOLOGY>>}
              /\ ~escaped => replies = <<APOLOGY>>
              /\ nUpdates < MaxUpdates => ENABLED dispatch

C3_Witness ==
    /\ AinvokeRaised
    /\ hpc = "finished"
    /\ replies = <<APOLOGY>>
    /\ nUpdates < MaxUpdates

(* C4 *)

\* C4 as stated: at every boundary of the loop over the files, and at the
\* return, no staging file is left on disk.
C4_StagingReleased ==
    pc = "gd_loop" => tempFiles = {}

(* C5 *)

Built ==
    /\ documents # <<>>
    /\ texts # <<>>
    /\ vectorstore = texts
    /\ qa_chain = [llm |-> "ChatOpenAI", retriever |-> vectorstore]

\* C5: no update is dispatched and no handler runs before load, split, index
\* and chain have completed: the chunks are the split of the documents, the
\* index holds the chunks and the chain reads the index; and once they are
\* made the documents, chunks, index and chain never change again and main
\* never goes back to a build step.
C5_BuildOnceBeforeAsk ==
    /\ [](pc = "main_embed" => texts = split_documents(text_splitter, documents))
    /\ []((Ready \/ hpc # "idle" \/ nUpdates > 0) => Built)
    /\ [][texts # <<>> => UNCHANGED <<documents, text_splitter, texts>>]_vars
    /\ [][Built => /\ UNCHANGED <<vectorstore, qa_chain>>
                   /\ pc' \in {"main_app", "run_polling", "polling", "exited"}]_vars

C5_Witness ==
    /\ hpc = "hm_reply"
    /\ Built
    /\ nUpdates = 2

(* C6 *)

\* The loader a file's declared (mime) type calls for.
DeclaredLoader(file) ==
    IF file.mimeType = PDF_MIME THEN "UnstructuredPDFLoader"
    ELSE IF file.mimeType \in {GDOC, DOCX_EXPORT} THEN "UnstructuredWordDocumentLoader"
    ELSE IF file.mimeType \in {GSLIDES, PPTX_EXPORT} THEN "UnstructuredPowerPointLoader"
    ELSE "none"

\* C6 as stated: every processed file that did not raise is loaded by the
\* loader of its declared type, and is skipped only when its declared type is
\* a spreadsheet or unsupported.
C6_DispatchByDeclaredType ==
    InLoop =>
        \A k \in DOMAIN outcome :
            outcome[k].status # "error" =>
                IF DeclaredLoader(files[k]) # "none"
                THEN /\ outcome[k].status = "loaded"
                     /\ outcome[k].loader = DeclaredLoader(files[k])
                ELSE outcome[k].status = "skipped"

\* The name ends in "." ext, after a base name (what follows the last "/")
\* that has a character other than ".".
NameHasExtension(name, ext) ==
    /\ Len(name) >= 3
    /\ name[Len(name) - 1] = "."
    /\ name[Len(name)] = ext
    /\ \E k \in 1..(Len(name) - 2) :
          /\ name[k] \notin {".", "/"}
          /\ \A j \in k..Len(name) : name[j] # "/"

\* The loader the code's rule calls for: the mime type decides for the
\* Google-native types, the extension of the name for every other file.
RuleLoader(file) ==
    IF file.mimeType = GDOC THEN "UnstructuredWordDocumentLoader"
    ELSE IF file.mimeType = GSLIDES THEN "UnstructuredPowerPointLoader"
    ELSE IF file.mimeType = GSHEET THEN "none"
    ELSE IF NameHasExtension(file.name, "pdf") THEN "UnstructuredPDFLoader"
    ELSE IF NameHasExtension(file.name, "docx") THEN "UnstructuredWordDocumentLoader"
    ELSE IF NameHasExtension(file.name, "pptx") THEN "UnstructuredPowerPointLoader"
    ELSE "none"

\* C6 amended: a Google document goes to the Word loader and a Google
\* presentation to the PowerPoint loader; every other file except a Google
\* spreadsheet is dispatched by the extension of its name (.pdf, .docx,
\* .pptx), whatever its declared type; a file so dispatched contributes the
\* documents its loader returns unless a step raised; only Google
\* spreadsheets and names with another extension are skipped, with a warning.
C6_DispatchByMimeThenExtension ==
    InLoop =>
        \A k \in DOMAIN outcome :
            LET o == outcome[k]
                expected == RuleLoader(files[k])
            IN /\ o.status = "loaded" =>
                     /\ o.loader = expected
                     /\ expected # "none"
                     /\ \A d \in Range(o.docs) : d \in Range(documents)
               /\ o.status = "skipped" =>
                     /\ expected = "none"
                     /\ o.docs = <<>>
                     /\ \E j \in DOMAIN log :
                           /\ log[j].level = "warning"
                           /\ log[j].name = files[k].name
               /\ o.status \in {"loaded", "skipped", "error"}
               /\ expected = "none" => o.status # "loaded"
               /\ expected # "none" => o.status # "skipped"

C6_Witness ==
    /\ pc = "gd_loop"
    /\ Len(outcome) = 2
    /\ files[1] = [name |-> <<"tema">>, mimeType |-> PDF_MIME]
    /\ outcome[1].status = "skipped"
    /\ files[2] = [name |-> <<"tema", ".", "pdf">>, mimeType |-> PDF_MIME]
    /\ outcome[2].status = "loaded"
    /\ outcome[2].loader = "UnstructuredPDFLoader"


(* C7 *)

ASheet == [name |-> <<"notas">>, mimeType |-> GSHEET]
APdf == [name |-> <<"tema", ".", "pdf">>, mimeType |-> PDF_MIME]

\* The loop over a listing of one spreadsheet and one PDF has ended.
SheetAndPdfReturned ==
    /\ pc = "gd_loop"
    /\ i > Len(files)
    /\ files \in {<<ASheet, APdf>>, <<APdf, ASheet>>}

ErrorRecords ==
    SelectSeq(log, LAMBDA r : r.level = "error")

\* C7: for a listing of a spreadsheet and a PDF, in either order, the result
\* is exactly what the PDF loader returned for the PDF; the spreadsheet is
\* skipped with a warning, contributes nothing, is never logged as an error,
\* raises nothing and does not keep the PDF from being processed.
C7_SheetSkippedPdfLoaded ==
    SheetAndPdfReturned =>
        LET s == CHOOSE k \in 1..2 : files[k] = ASheet
            p == CHOOSE k \in 1..2 : files[k] = APdf
        IN /\ exitStatus = "running"
           /\ Len(outcome) = 2
           /\ outcome[s] = Outcome("skipped", "mime", "none", <<>>)
           /\ outcome[p].status \in {"loaded", "error"}
           /\ outcome[p].status = "loaded" =>
                 outcome[p].loader = "UnstructuredPDFLoader"
           /\ documents = outcome[p].docs
           /\ \A d \in Range(documents) : d.source = p
           /\ \A k \in DOMAIN ErrorRecords : ErrorRecords[k].name # ASheet.name
           /\ Len(ErrorRecords) = IF outcome[p].status = "error" THEN 1 ELSE 0
           /\ \E k \in DOMAIN log :
                 log[k] = LogRecord("warning", "Archivo de hoja de calculo omitido",
                                    ASheet.name, 0)

C7_Witness ==
    /\ SheetAndPdfReturned
    /\ files[1] = ASheet
    /\ outcome[2].status = "loaded"
    /\ Len(documents) = 2

(* C8 *)

\* C8: the documents keep the order of the listing: a document of an earlier
\* file never comes after a document of a later file, whatever was skipped or
\* failed in between.
C8_ListingOrder ==
    \A a, b \in DOMAIN documents :
        documents[a].source < documents[b].source => a < b

C8_Witness ==
    /\ pc = "gd_loop"
    /\ i > Len(files)
    /\ \E a, b \in DOMAIN documents : documents[a].source # documents[b].source

(* C9 *)

\* C9 as stated: a process that ended after a fatal startup error (no
\* documents, no chunks, failed index build) has logged an error and has
\* ended with a failure status.
C9_FatalExitsWithFailure ==
    (pc = "exited" /\ (NoDocumentsError \/ NoChunksError \/ crash = "FAISS.from_documents")) =>
        /\ exitStatus = "failure"
        /\ ErrorRecords # <<>>

(* C10 *)

\* handle_message has finished after qa_chain.ainvoke returned a response.
AinvokeReturned ==
    /\ update.kind = "text"
    /\ hpc = "finished"
    /\ result # NoResult

\* C10 as stated: a response without "result" is answered with
\* "No relevant information found", with no apology and no exception; a
\* response with "result" is answered with that text.
C10_FallbackText ==
    AinvokeReturned =>
        /\ ~escaped
        /\ replies = << IF "result" \in DOMAIN result THEN result.result
                        ELSE "No relevant information found" >>

\* C10 amended: the fallback is the string "No encontre informacion." (with
\* its accents in the program); when the response has no "result" key
\* handle_message replies with that string, when it has one with its value;
\* the apology is sent, and an exception can leave the handler, only when the
\* sending of that reply itself raised.
C10_DefaultText ==
    AinvokeReturned =>
        LET answer == IF "result" \in DOMAIN result THEN result.result
                      ELSE "No encontre informacion."
        IN /\ attempts # <<>>
           /\ attempts[1] = answer
           /\ IF LastLogIs("error", "Error al responder")
              THEN attempts = <<answer, APOLOGY>>
              ELSE /\ ~escaped
                   /\ attempts = <<answer>>
                   /\ replies = <<answer>>

C10_Witness ==
    /\ AinvokeReturned
    /\ "result" \notin DOMAIN result
    /\ replies = <<NO_RESULT_DEFAULT>>


(* C11 *)

StartCommand == [kind |-> "command", text |-> "/start"]

\* C11: start runs only for the /start command, sends nothing but the fixed
\* greeting and never calls the chain; handle_message runs only for text
\* messages that are no command, and calls qa_chain.ainvoke exactly once for
\* each of them; no other command reaches either handler.
C11_TwoEntryPoints ==
    /\ hpc = "start" => update = StartCommand
    /\ hpc \in {"hm_ainvoke", "hm_reply", "hm_apology"} => update.kind = "text"
    /\ update.kind = "command" =>
          /\ ainvokes = 0
          /\ result = NoResult
          /\ attempts = IF update = StartCommand /\ hpc = "finished"
                        THEN <<GREETING>> ELSE <<>>
          /\ \A k \in DOMAIN replies : replies[k] = GREETING
    /\ update.kind = "text" =>
          /\ hpc # "start"
          /\ GREETING \notin Range(attempts)
          /\ ainvokes = IF hpc = "hm_ainvoke" THEN 0 ELSE 1

C11_Witness ==
    /\ update = StartCommand
    /\ hpc = "finished"
    /\ replies = <<GREETING>>
    /\ ainvokes = 0
    /\ LogHas("info", "Pregunta recibida")


(* C12 *)

\* What the asker of question q can be sent: the answer to q, the default
\* text, or the apology.
OwnReplies(q) == { "respuesta a " \o q, NO_RESULT_DEFAULT, APOLOGY }

C13_NoSerialization ==
    (hpc = "hm_ainvoke" /\ nUpdates < MaxUpdates) => ENABLED dispatch


(* C14 *)

\* C14: when any of BOT_TOKEN, OPENAI_API_KEY, DRIVE_FOLDER_ID and
\* GOOGLE_CREDS is not set, main never gets as far as registering the
\* handlers or calling run_polling, and no update is ever handled.
C14_MissingConfigNeverReady ==
    env # ConfigNames =>
        /\ pc \notin {"run_polling", "polling"}
        /\ handlers = {}
        /\ nUpdates = 0
        /\ hpc = "idle"
        /\ attempts = <<>>

C14_Witness ==
    /\ env = ConfigNames \ {"BOT_TOKEN"}
    /\ pc = "exited"
    /\ crash = "ApplicationBuilder.build"
    /\ qa_chain # NoChain


(* C15 *)

\* The one document that is split, its length and the splitter's settings.
Body == documents[1].page_content
L == Len(Body)
S == text_splitter.chunk_size
O == text_splitter.chunk_overlap

SplitDone == pc \in {"main_embed", "exited"}

Max(a, b) == IF a > b THEN a ELSE b
CeilDiv(a, b) == (a + b - 1) \div b

\* Position k of the body lies in chunk c.
Holds(c, k) == c.from < k /\ k <= c.to

ChunksFit == \A j \in DOMAIN texts : texts[j].to - texts[j].from <= S

\* C15 as stated: every chunk has at most S characters, every character of
\* the body lies in some chunk and the chunks follow each other without a
\* gap, there are ceil(max(L - O, 0) / (S - O)) chunks, and an empty
\* document yields none.
C15_WindowSplit ==
    SplitDone =>
        /\ ChunksFit
        /\ \A k \in 1..L : \E j \in DOMAIN texts : Holds(texts[j], k)
        /\ \A j \in 1..(Len(texts) - 1) : texts[j + 1].from <= texts[j].to
        /\ Len(texts) = CeilDiv(Max(L - O, 0), S - O)
        /\ L = 0 => texts = <<>>

NoWhitespace == \A k \in 1..L : Body[k] \notin Whitespace

\* The j-th window of S characters when the window advances by S - O.
Window(j) ==
    LET from == (j - 1) * (S - O)
    IN [source |-> 1, part |-> 1, from |-> from,
        to |-> IF from + S < L THEN from + S ELSE L]

\* C15, amended: every chunk is a non-empty piece of the body of at most S
\* characters that neither starts nor ends with white space, the chunks
\* come in the order of the body, every character that is not white space
\* lies in some chunk, a body without white space is cut into
\* max(1, ceil((L - O) / (S - O))) windows of S characters that advance by
\* S - O, and a body that is empty or all white space yields no chunk.
C15_RecursiveSplit ==
    SplitDone =>
        /\ ChunksFit
        /\ \A j \in DOMAIN texts :
              /\ 0 <= texts[j].from /\ texts[j].from < texts[j].to /\ texts[j].to <= L
              /\ S > 1 => /\ Body[texts[j].from + 1] \notin Whitespace
                          /\ Body[texts[j].to] \notin Whitespace
        /\ \A j \in 1..(Len(texts) - 1) :
              /\ texts[j].from <= texts[j + 1].from
              /\ texts[j].to <= texts[j + 1].to
        /\ \A k \in 1..L :
              Body[k] \notin Whitespace => \E j \in DOMAIN texts : Holds(texts[j], k)
        /\ (NoWhitespace /\ L > 0) =>
              /\ Len(texts) = Max(1, CeilDiv(L - O, S - O))
              /\ \A j \in DOMAIN texts : texts[j] = Window(j)
        /\ (\A k \in 1..L : Body[k] \in Whitespace) /\ S > 1 => texts = <<>>
        /\ L = 0 => texts = <<>>

C15_Witness ==
    /\ SplitDone
    /\ Body = <<"x", "x", " ", "x">>
    /\ S = 2 /\ O = 1
    /\ Len(texts) = 2
    /\ \A j \in DOMAIN texts : ~Holds(texts[j], 3)


(* C16 *)

IsPrefix(a, b) == Len(a) <= Len(b) /\ SubSeq(b, 1, Len(a)) = a

\* The file's iteration went through request, staging, the whole download,
\* the loader choice and load without an exception.
WentThrough(k) ==
    /\ k \in DOMAIN outcome
    /\ outcome[k].status = "loaded"
    /\ outcome[k].stage = "load"
    /\ k \in requests
    /\ k \in tempFiles

\* C16: at every point of the loop every accumulated document belongs to a
\* file whose iteration went through all its steps without an exception, a
\* file that failed or was skipped and the file in progress have no
\* document in the list, and no step of the loop removes or alters a
\* document accumulated before.
C16_AllOrNothing ==
    /\ [](InLoop =>
            /\ \A d \in Range(documents) :
                  /\ WentThrough(d.source)
                  /\ d \in Range(outcome[d.source].docs)
            /\ \A k \in 1..Len(files) :
                  (k >= i \/ outcome[k].status # "loaded") =>
                      \A d \in Range(documents) : d.source # k)
    /\ [][(InLoop /\ InLoop') => IsPrefix(documents, documents')]_vars

C16_Witness ==
    /\ pc = "gd_loop"
    /\ Len(outcome) = 2
    /\ outcome[1].status = "loaded"
    /\ outcome[2].status = "error"
    /\ outcome[2].stage = "load"
    /\ documents = outcome[1].docs
    /\ Len(documents) = 2


(* C17 *)

\* handle_message has finished with a text message.
TextHandled == update.kind = "text" /\ hpc = "finished"

\* The text handle_message sends for the response of the chain.
Answer == response_text(result)

\* C17 as stated: for a handled text message the answer and the apology are
\* never both delivered; after a normal ainvoke and answer reply exactly the
\* answer is sent, after a failed ainvoke exactly the apology is attempted,
\* the apology follows the answer only when sending the answer raised, and
\* an exception leaves the handler exactly when sending the apology raised.
C17_AnswerOrApology ==
    TextHandled =>
        /\ ~(\E a, b \in DOMAIN replies : replies[a] = APOLOGY /\ replies[b] # APOLOGY)
        /\ result = NoResult => attempts = <<APOLOGY>>
        /\ result # NoResult => attempts \in {<<Answer>>, <<Answer, APOLOGY>>}
        /\ (result # NoResult /\ ~LastLogIs("error", "Error al responder")) =>
              (attempts = <<Answer>> /\ replies = <<Answer>>)
        /\ escaped => attempts[Len(attempts)] = APOLOGY


(* C18 *)

SkippedAt(k, stage) ==
    /\ k \in DOMAIN outcome
    /\ outcome[k].status = "skipped"
    /\ outcome[k].stage = stage

\* C18: a Google spreadsheet is skipped before any staging, with no media
\* request and no staging file made for it; a file is skipped for its
\* extension only after its request was made, its staging file created and
\* its download completed.
C18_SkipBeforeOrAfterStaging ==
    InLoop =>
        /\ \A k \in DOMAIN outcome :
              /\ files[k].mimeType = GSHEET =>
                    /\ SkippedAt(k, "mime")
                    /\ k \notin requests
                    /\ k \notin tempFiles
              /\ SkippedAt(k, "mime") => files[k].mimeType = GSHEET
              /\ SkippedAt(k, "extension") =>
                    /\ k \in requests
                    /\ k \in tempFiles
        /\ pc \in {"gd_select", "gd_load"} =>
              /\ done
              /\ fh = i
              /\ request.fileId = i
              /\ i \in tempFiles
        /\ (pc = "gd_loop" /\ SkippedAt(i - 1, "extension")) =>
              /\ done
              /\ fh = i - 1
              /\ request.fileId = i - 1

C18_Witness ==
    /\ pc = "gd_loop"
    /\ Len(outcome) = 2
    /\ files[1].mimeType = GSHEET
    /\ SkippedAt(1, "mime")
    /\ SkippedAt(2, "extension")
    /\ requests = {2}
    /\ tempFiles = {2}
    /\ done

====
